---------------------------- MODULE Spec2Model ----------------------------
(***************************************************************************)
(* A model of DJBdownloader (src/downloader.py): the schedule expansion,   *)
(* the segment locator, and the run of main(): login handshake, station    *)
(* callsign resolution, task list construction and the sequential task     *)
(* loop with its download and concat branches.                             *)
(*                                                                         *)
(* Strings are sequences of one-character strings, so that formatting,     *)
(* splitting, prefix tests and lexicographic comparison are computed.      *)
(* Dates are proleptic Gregorian ordinals, as datetime.date keeps them.    *)
(***************************************************************************)
EXTENDS Integers, Sequences, FiniteSets, TLC

(***************************************************************************)
(* Bounds of the model.                                                    *)
(***************************************************************************)
\* longest rule window (in days after its start) drawn for the functions
MaxSpan == 8
\* window (in days after its start) of the rules drawn for a run of main()
RunSpan == 7

(***************************************************************************)
(* Strings.                                                                *)
(***************************************************************************)
Digits == <<"0", "1", "2", "3", "4", "5", "6", "7", "8", "9">>

\* the code point of a character, for the characters the model uses
ord(c) ==
    CASE c = "-" -> 45
      [] c = "." -> 46
      [] c = "/" -> 47
      [] c \in {Digits[i] : i \in 1..10} ->
            47 + (CHOOSE i \in 1..10 : Digits[i] = c)
      [] c = "A" -> 65
      [] c = "B" -> 66
      [] c = "C" -> 67
      [] c = "D" -> 68
      [] c = "E" -> 69
      [] c = "K" -> 75
      [] c = "R" -> 82
      [] c = "S" -> 83
      [] c = "X" -> 88
      [] c = "a" -> 97
      [] c = "d" -> 100
      [] c = "e" -> 101
      [] c = "g" -> 103
      [] c = "h" -> 104
      [] c = "i" -> 105
      [] c = "l" -> 108
      [] c = "m" -> 109
      [] c = "o" -> 111
      [] c = "p" -> 112
      [] c = "t" -> 116
      [] c = "u" -> 117
      [] c = "x" -> 120

\* s < t for Python strings: lexicographic by code point, a proper prefix first
RECURSIVE StrLess(_, _)
StrLess(s, t) ==
    IF t = <<>> THEN FALSE
    ELSE IF s = <<>> THEN TRUE
    ELSE IF Head(s) = Head(t) THEN StrLess(Tail(s), Tail(t))
    ELSE ord(Head(s)) < ord(Head(t))

\* s.startswith(p)
startswith(s, p) ==
    /\ Len(p) <= Len(s)
    /\ SubSeq(s, 1, Len(p)) = p

\* s.endswith(p)
endswith(s, p) ==
    /\ Len(p) <= Len(s)
    /\ SubSeq(s, Len(s) - Len(p) + 1, Len(s)) = p

\* s.split('-'): the list of the pieces between the dashes
RECURSIVE SplitFrom(_, _)
SplitFrom(s, piece) ==
    IF s = <<>> THEN <<piece>>
    ELSE IF Head(s) = "-" THEN <<piece>> \o SplitFrom(Tail(s), <<>>)
    ELSE SplitFrom(Tail(s), Append(piece, Head(s)))

split(s) == SplitFrom(s, <<>>)

\* whether int(s) succeeds: a non-empty run of decimal digits
IsInt(s) ==
    /\ s # <<>>
    /\ \A i \in 1..Len(s) : s[i] \in {Digits[k] : k \in 1..10}

\* int(s) for a string of decimal digits
RECURSIVE int(_)
int(s) ==
    IF s = <<>> THEN 0
    ELSE 10 * int(SubSeq(s, 1, Len(s) - 1))
            + (ord(s[Len(s)]) - 48)

\* the decimal digits of n >= 0
RECURSIVE Dec(_)
Dec(n) ==
    IF n < 10 THEN <<Digits[n + 1]>>
    ELSE Dec(n \div 10) \o <<Digits[(n % 10) + 1]>>

\* format spec 0<w>d: zero padded to at least w characters
RECURSIVE ZeroPad(_, _)
ZeroPad(s, w) == IF Len(s) < w THEN ZeroPad(<<"0">> \o s, w) ELSE s

Fmt02(n) == ZeroPad(Dec(n), 2)

(***************************************************************************)
(* datetime.date: a date is its proleptic Gregorian ordinal                *)
(* (0001-01-01 is day 1).                                                  *)
(***************************************************************************)
DAYS_IN_MONTH == <<31, 28, 31, 30, 31, 30, 31, 31, 30, 31, 30, 31>>

DAYS_BEFORE_MONTH == <<0, 31, 59, 90, 120, 151, 181, 212, 243, 273, 304, 334>>

is_leap(y) == y % 4 = 0 /\ (y % 100 # 0 \/ y % 400 = 0)

days_before_year(y) ==
    (y - 1) * 365 + ((y - 1) \div 4) - ((y - 1) \div 100) + ((y - 1) \div 400)

days_before_month(y, m) ==
    DAYS_BEFORE_MONTH[m] + (IF m > 2 /\ is_leap(y) THEN 1 ELSE 0)

\* datetime.strptime(s, "%Y-%m-%d").date() of the string y-m-d
ymd2ord(y, m, d) == days_before_year(y) + days_before_month(y, m) + d

\* the (year, month, day) of an ordinal
ord2ymd(o) ==
    LET n0   == o - 1
        n400 == n0 \div 146097
        r400 == n0 % 146097
        n100 == r400 \div 36524
        r100 == r400 % 36524
        n4   == r100 \div 1461
        r4   == r100 % 1461
        n1   == r4 \div 365
        n    == r4 % 365
        year == n400 * 400 + 1 + n100 * 100 + n4 * 4 + n1
    IN  IF n1 = 4 \/ n100 = 4
        THEN [year |-> year - 1, month |-> 12, day |-> 31]
        ELSE
          LET leapyear == n1 = 3 /\ (n4 # 24 \/ n100 = 3)
              m0   == (n + 50) \div 32
              p0   == DAYS_BEFORE_MONTH[m0]
                         + (IF m0 > 2 /\ leapyear THEN 1 ELSE 0)
              month == IF p0 > n THEN m0 - 1 ELSE m0
              prec  == IF p0 > n
                       THEN p0 - (DAYS_IN_MONTH[month]
                                    + (IF month = 2 /\ leapyear THEN 1 ELSE 0))
                       ELSE p0
          IN  [year |-> year, month |-> month, day |-> n - prec + 1]

\* date.weekday(): 0 is Monday, 6 is Sunday
weekday(o) == (o + 6) % 7

\* date.strftime('%y-%m-%d'): two-digit year, month and day
strftime_ymd(o) ==
    LET t == ord2ymd(o)
    IN  Fmt02(t.year % 100) \o <<"-">> \o Fmt02(t.month) \o <<"-">> \o Fmt02(t.day)

\* date.isoformat(): YYYY-MM-DD
isoformat(o) ==
    LET t == ord2ymd(o)
    IN  ZeroPad(Dec(t.year), 4) \o <<"-">> \o Fmt02(t.month)
            \o <<"-">> \o Fmt02(t.day)

(***************************************************************************)
(* The state.                                                              *)
(***************************************************************************)
VARIABLES
    SCHEDULES,      \* the configured rules: <<start, end, weekday, hours>>
    start_date,     \* args.start_date: None or a date
    STATION_CODE,   \* the global station code, a string
    pc,             \* where main() stands
    session,        \* whether login_session has returned a session
    tasks,          \* the flat task list
    ti,             \* the index of the next task of the loop
    tmpdirs,        \* the directories OUTPUT_DIR/tmp/<date> that exist
    tmpfiles,       \* the files <<date, name>> in those directories
    outfiles,       \* the files OUTPUT_DIR/<date>.mp3 written by ffmpeg
    net,            \* the requests sent, in order
    ffmpeg,         \* the concat invocations of ffmpeg, in order
    done,           \* the tasks processed, in order, each with its outcome
    fn_pc,          \* which of the functions was applied last
    occs,           \* the list gen_show_dates(start_date) yielded
    entries,        \* the list build_urls_for_date(occ) returned
    occ,            \* the occurrence entries was built for
    parts           \* sorted(tmp.glob("*.mp3")) over the saved entries

cfgvars == <<SCHEDULES, start_date, STATION_CODE>>

runvars == <<pc, session, tasks, ti, tmpdirs, tmpfiles, outfiles, net,
             ffmpeg, done>>

fnvars == <<fn_pc, occs, entries, occ, parts>>

vars == <<SCHEDULES, start_date, STATION_CODE, pc, session, tasks, ti,
          tmpdirs, tmpfiles, outfiles, net, ffmpeg, done, fn_pc, occs,
          entries, occ, parts>>

\* start_after=None, the default of gen_show_dates; no date has ordinal 0
None == 0

(***************************************************************************)
(* gen_show_dates                                                          *)
(***************************************************************************)
\* datetime.strptime(s, "%Y-%m-%d").date()
strptime(s) ==
    LET p == split(s)
    IN  ymd2ord(int(p[1]), int(p[2]), int(p[3]))

\* a loop that stops one day early
InWindow_exclusive(cur, last) == cur < last

\* the loop condition: while cur <= last
InWindow(cur, last) == cur <= last

\* a lower bound that leaves out the start date itself
Selected_after(cur, wd, start_after) ==
    /\ weekday(cur) = wd
    /\ (start_after = None \/ cur > start_after)

\* the two nested conditions under which cur is yielded
Selected(cur, wd, start_after) ==
    /\ weekday(cur) = wd
    /\ (start_after = None \/ cur >= start_after)

\* the while loop of one rule, from cur on: the days cur, cur + 1, ... are
\* visited in this order as long as the loop condition holds, and a visited
\* day is yielded with the hours of the rule if it is selected
ScanRule(cur, last, wd, hours, start_after) ==
    LET days == [i \in 1..(last - cur + 1) |-> cur + i - 1]
        kept == SelectSeq(days, LAMBDA d :
                    InWindow(d, last) /\ Selected(d, wd, start_after))
    IN  [i \in 1..Len(kept) |-> <<kept[i], hours>>]

\* the for loop over the rules
RECURSIVE ScanRules(_, _)
ScanRules(rules, start_after) ==
    IF rules = <<>> THEN <<>>
    ELSE LET r == Head(rules)
         IN  ScanRule(strptime(r[1]), strptime(r[2]), r[3], r[4], start_after)
                \o ScanRules(Tail(rules), start_after)

\* the list of the (date, hours) pairs the generator yields
gen_show_dates(start_after) == ScanRules(SCHEDULES, start_after)

(***************************************************************************)
(* build_urls_for_date                                                     *)
(***************************************************************************)
\* a locator that forgets the day change at midnight
date_for_same_day(dt, hour) == dt

\* date_for = dt if hour != 0 else dt + timedelta(days=1)
date_for(dt, hour) == IF hour # 0 THEN dt ELSE dt + 1

\* fn = f"{STATION_CODE}-{date_for.strftime('%y-%m-%d')}-{hour:02d}-00.mp3"
filename(dt, hour) ==
    STATION_CODE \o <<"-">> \o strftime_ymd(date_for(dt, hour)) \o <<"-">>
        \o Fmt02(hour) \o <<"-", "0", "0", ".", "m", "p", "3">>

\* url = f"{BASE_URL}?f={fn}&action=10": its query parameters
segment_url(fn) == [f |-> fn, action |-> <<"1", "0">>]

\* the Referer header: the query parameters of the listing page with &p=
referer(dt, hour) ==
    LET t == ord2ymd(date_for(dt, hour))
    IN  [c |-> <<"0">>, d |-> Fmt02(t.day), m |-> Fmt02(t.month),
         y |-> Dec(t.year), p |-> Fmt02(hour)]

\* the list of (filename, url, headers), one entry per hour, in list order
build_urls_for_date(dt, hours) ==
    [i \in 1..Len(hours) |->
        <<filename(dt, hours[i]),
          segment_url(filename(dt, hours[i])),
          [Referer |-> referer(dt, hours[i])]>>]

(***************************************************************************)
(* sorted(tmp.glob("*.mp3"))                                               *)
(***************************************************************************)
\* the names of a directory listing that match *.mp3
glob_mp3(names) == {f \in names : endswith(f, <<".", "m", "p", "3">>)}

\* the order of two paths of one directory: the order of their names
PathLess(a, b) == StrLess(a, b)

\* sorted(): ascending
RECURSIVE sorted(_)
sorted(S) ==
    IF S = {} THEN <<>>
    ELSE LET m == CHOOSE x \in S : \A y \in S \ {x} : PathLess(x, y)
         IN  <<m>> \o sorted(S \ {m})

(***************************************************************************)
(* The configuration.                                                      *)
(***************************************************************************)
\* a configuration whose second rule starts inside the window of the first,
\* on the same weekday
ConfiguredSCHEDULES_overlapping ==
    << <<<<"2", "0", "2", "3", "-", "0", "9", "-", "0", "1">>, <<"2", "0", "2", "3", "-", "1", "2", "-", "1", "0">>,
         2, <<22, 23, 0>> >>,
       <<<<"2", "0", "2", "3", "-", "1", "2", "-", "0", "1">>, <<"2", "0", "2", "4", "-", "0", "5", "-", "0", "5">>,
         2, <<22, 23, 0>> >>,
       <<<<"2", "0", "2", "4", "-", "0", "9", "-", "0", "1">>, <<"2", "0", "2", "5", "-", "0", "5", "-", "0", "1">>,
         0, <<22, 23, 0>> >> >>

\* SCHEDULES as the script configures it
ConfiguredSCHEDULES ==
    << <<<<"2", "0", "2", "3", "-", "0", "9", "-", "0", "1">>, <<"2", "0", "2", "3", "-", "1", "2", "-", "1", "0">>,
         2, <<22, 23, 0>> >>,
       <<<<"2", "0", "2", "4", "-", "0", "2", "-", "0", "1">>, <<"2", "0", "2", "4", "-", "0", "5", "-", "0", "5">>,
         1, <<22, 23, 0>> >>,
       <<<<"2", "0", "2", "4", "-", "0", "9", "-", "0", "1">>, <<"2", "0", "2", "5", "-", "0", "5", "-", "0", "1">>,
         0, <<22, 23, 0>> >> >>

\* station codes: a plain one, one that contains a dash, and the empty one
StationCodes == {<<"B", "S", "R">>, <<"A", "-", "B">>, <<>>}

(***************************************************************************)
(* The functions applied to drawn inputs: gen_show_dates on a schedule     *)
(* and a start date, build_urls_for_date on one of the occurrences, and    *)
(* the sorted listing of the segment files saved for it.                   *)
(***************************************************************************)
\* first days of the drawn windows: before a year end, before a leap day,
\* and before the end of a century
FnAnchors ==
    {ymd2ord(2023, 12, 27), ymd2ord(2024, 2, 24), ymd2ord(2099, 12, 27)}

FnHours == {<<22, 23, 0>>, <<0, 22, 23>>, <<23, 0>>, <<0, 1>>, <<0>>, <<5>>}

FnRules ==
    {<<isoformat(a), isoformat(a + s), wd, h>> :
        a \in FnAnchors, s \in (-1)..MaxSpan, wd \in 0..6, h \in FnHours}

\* rules that overlap, for schedules of two rules
FnPairRules ==
    {<<isoformat(a), isoformat(a + s), weekday(a + k), <<22, 23, 0>> >> :
        a \in {ymd2ord(2023, 12, 27)}, s \in {6, MaxSpan}, k \in {0, 1}}

FnSCHEDULES ==
    {<<r>> : r \in FnRules}
        \cup {<<r1, r2>> : r1 \in FnPairRules, r2 \in FnPairRules}
        \cup {ConfiguredSCHEDULES}

FnStartDates(sched) ==
    {None} \cup {strptime(sched[1][1]) + k : k \in {1, 5}}

RunIdle ==
    /\ pc = "idle"
    /\ session = FALSE
    /\ tasks = <<>>
    /\ ti = 1
    /\ tmpdirs = {}
    /\ tmpfiles = {}
    /\ outfiles = {}
    /\ net = <<>>
    /\ ffmpeg = <<>>
    /\ done = <<>>

FnInit ==
    /\ SCHEDULES \in FnSCHEDULES
    /\ start_date \in FnStartDates(SCHEDULES)
    /\ STATION_CODE \in StationCodes
    /\ fn_pc = "args"
    /\ occs = <<>>
    /\ entries = <<>>
    /\ occ = <<>>
    /\ parts = <<>>
    /\ RunIdle

\* list(gen_show_dates(start_after=args.start_date))
FnGen ==
    /\ fn_pc = "args"
    /\ occs' = gen_show_dates(start_date)
    /\ fn_pc' = "dates"
    /\ UNCHANGED <<entries, occ, parts>>
    /\ UNCHANGED cfgvars
    /\ UNCHANGED runvars

\* build_urls_for_date(dt, hours) for one of the occurrences
FnBuild ==
    /\ fn_pc = "dates"
    /\ \E k \in 1..Len(occs) :
        /\ occ' = occs[k]
        /\ entries' = build_urls_for_date(occs[k][1], occs[k][2])
    /\ fn_pc' = "urls"
    /\ UNCHANGED <<occs, parts>>
    /\ UNCHANGED cfgvars
    /\ UNCHANGED runvars

\* sorted(tmp.glob("*.mp3")) when the segments in saved were written to tmp
FnSort ==
    /\ fn_pc = "urls"
    /\ \E saved \in SUBSET (1..Len(entries)) :
        parts' = sorted(glob_mp3({entries[i][1] : i \in saved}))
    /\ fn_pc' = "parts"
    /\ UNCHANGED <<occs, entries, occ>>
    /\ UNCHANGED cfgvars
    /\ UNCHANGED runvars

FnNext == FnGen \/ FnBuild \/ FnSort

SpecFn == FnInit /\ [][FnNext]_vars

(***************************************************************************)
(* A run of main().                                                        *)
(***************************************************************************)
FnIdle ==
    /\ fn_pc = "idle"
    /\ occs = <<>>
    /\ entries = <<>>
    /\ occ = <<>>
    /\ parts = <<>>

\* the first day of the rules drawn for a run: a Wednesday, as in the first
\* configured rule, four days before a year end
RunStart == ymd2ord(2023, 12, 27)

\* the schedules drawn for a run: none, one occurrence of three hours, two
\* occurrences of one hour, two occurrences of two hours
RunSCHEDULES ==
    {<<>>,
     << <<isoformat(RunStart), isoformat(RunStart),
          weekday(RunStart), <<22, 23, 0>> >> >>,
     << <<isoformat(RunStart), isoformat(RunStart + RunSpan),
          weekday(RunStart), <<0>> >> >>,
     << <<isoformat(RunStart), isoformat(RunStart + RunSpan),
          weekday(RunStart), <<23, 0>> >> >>}

\* the state when main() has parsed its arguments (line 179): STATION_CODE
\* holds args.station_code, empty when the flag is omitted
Init ==
    /\ SCHEDULES \in RunSCHEDULES
    /\ start_date \in {None, RunStart + 1}
    /\ STATION_CODE \in {<<>>, <<"B", "S", "R">>, <<"A", "-", "B">>}
    /\ pc = "config"
    /\ session = FALSE
    /\ tasks = <<>>
    /\ ti = 1
    /\ tmpdirs = {}
    /\ tmpfiles = {}
    /\ outfiles = {}
    /\ net = <<>>
    /\ ffmpeg = <<>>
    /\ done = <<>>
    /\ FnIdle

\* a response: a transport failure (error, a timeout included), or a
\* status with a Content-Type
Response(status, ct) == [error |-> FALSE, status |-> status, ct |-> ct]

TransportFailure == [error |-> TRUE, status |-> 0, ct |-> <<>>]

text_html == <<"t", "e", "x", "t", "/", "h", "t", "m", "l">>

audio_mpeg == <<"a", "u", "d", "i", "o", "/", "m", "p", "e", "g">>

\* requests' Response.raise_for_status(): raises for 4xx and 5xx
raise_for_status(status) == 400 <= status /\ status < 600

\* a request whose status is never checked
Raises_transport_only(resp) == resp.error

\* session.get(...).raise_for_status() raises: no response, or 4xx/5xx
Raises(resp) == resp.error \/ raise_for_status(resp.status)

\* "if not SCHEDULES: ... sys.exit(1)"
CheckConfig ==
    /\ pc = "config"
    /\ pc' = IF SCHEDULES = <<>> THEN "exit1" ELSE "login1"
    /\ UNCHANGED <<session, tasks, ti, tmpdirs, tmpfiles, outfiles, net,
                   ffmpeg, done>>
    /\ UNCHANGED cfgvars
    /\ UNCHANGED fnvars

\* the final responses the login steps are drawn from
LoginResponses ==
    {TransportFailure} \cup {Response(st, text_html) : st \in {200, 304, 403}}

\* a handler that reports the login failure and carries on
OnLoginFailure_continue == "station"

\* "except Exception as e: print(Login failed); sys.exit(1)"
OnLoginFailure == "exit1"

\* one request of login_session: sent, then raise_for_status()
LoginStep(at, req, next) ==
    /\ pc = at
    /\ \E resp \in LoginResponses :
        /\ net' = Append(net, [req |-> req, resp |-> resp])
        /\ pc' = IF Raises(resp) THEN OnLoginFailure ELSE next
        /\ session' = (~Raises(resp) /\ next = "station")
    /\ UNCHANGED <<tasks, ti, tmpdirs, tmpfiles, outfiles, ffmpeg, done>>
    /\ UNCHANGED cfgvars
    /\ UNCHANGED fnvars

\* 1) GET login form
LoginGetForm == LoginStep("login1", "GET ?pp=1", "login2")

\* 2) POST credentials
LoginPostCredentials == LoginStep("login2", "POST pp=1", "login3")

\* 3) finalize login by visiting the landing page; return s
LoginGetLanding == LoginStep("login3", "GET ?pc=3", "station")

\* "seen = set(); codes = [c for c in codes if not (c in seen or ...)]"
RECURSIVE dedupe(_, _)
dedupe(codes, seen) ==
    IF codes = <<>> THEN <<>>
    ELSE IF Head(codes) \in seen THEN dedupe(Tail(codes), seen)
    ELSE <<Head(codes)>> \o dedupe(Tail(codes), seen \cup {Head(codes)})

\* what re.findall can return for the listing page
FoundCodes ==
    {<<>>,
     << <<"A", "-", "B">> >>,
     << <<"B", "S", "R">>, <<"B", "S", "R">> >>,
     << <<"B", "S", "R">>, <<"A", "-", "B">>, <<"B", "S", "R">> >>}

\* what the user can type at the "number of the callsign" prompt
Selections == {<<"1">>, <<"2">>, <<"0">>, <<"3">>, <<"x">>}

\* codes[int(sel) - 1] succeeds: sel is a number and the index is in range,
\* negative indexes counting from the end
SelectionValid(codes, sel) ==
    /\ IsInt(sel)
    /\ -Len(codes) <= int(sel) - 1
    /\ int(sel) - 1 < Len(codes)

\* codes[int(sel) - 1]
Selection(codes, sel) ==
    IF int(sel) - 1 >= 0 THEN codes[int(sel)]
    ELSE codes[Len(codes) + int(sel)]

\* what the first-table-row pattern can capture (a backslash, then w's),
\* <<>> when it does not match
RowMatches == {<<>>, <<"\\", "w">>}

\* what the user can type at the "station callsign" prompt, stripped
TypedCodes ==
    {<<>>, <<"B", "S", "R">>, <<"A", "-", "B", "-", "C", "-", "D", "-", "E">>}

\* "if not STATION_CODE:" the resolution of the callsign after login.  The
\* request of the listing page is outside any try of main(): its failure
\* reaches the guard at the bottom of the script, which exits with 1.
ResolveStation ==
    /\ pc = "station"
    /\ IF STATION_CODE # <<>>
       THEN /\ pc' = "build"
            /\ UNCHANGED <<STATION_CODE, net>>
       ELSE \E resp \in {TransportFailure, Response(200, text_html),
                         Response(500, text_html)} :
            /\ net' = Append(net, [req |-> "GET index", resp |-> resp])
            /\ IF Raises(resp)
               THEN /\ pc' = "exit1"
                    /\ UNCHANGED STATION_CODE
               ELSE \E found \in FoundCodes :
                    LET codes == dedupe(found, {})
                    IN  IF Len(codes) = 1
                        THEN /\ STATION_CODE' = codes[1]
                             /\ pc' = "build"
                        ELSE IF Len(codes) > 1
                        THEN \E sel \in Selections :
                             IF SelectionValid(codes, sel)
                             THEN /\ STATION_CODE' = Selection(codes, sel)
                                  /\ pc' = "build"
                             ELSE /\ pc' = "exit1"
                                  /\ UNCHANGED STATION_CODE
                        ELSE \E row \in RowMatches :
                             IF row # <<>>
                             THEN /\ STATION_CODE' = row
                                  /\ pc' = "build"
                             ELSE /\ STATION_CODE' \in TypedCodes
                                  /\ pc' = "build"
    /\ UNCHANGED <<SCHEDULES, start_date>>
    /\ UNCHANGED <<session, tasks, ti, tmpdirs, tmpfiles, outfiles, ffmpeg,
                   done>>
    /\ UNCHANGED fnvars

\* the download tasks of one occurrence: one per entry, segment = 1..total
DownloadTasks(dt, segs) ==
    [i \in 1..Len(segs) |->
        [type |-> "download", date |-> dt, segment |-> i,
         total |-> Len(segs), filename |-> segs[i][1], url |-> segs[i][2],
         headers |-> segs[i][3]]]

\* a task list that assembles an occurrence before it downloads it
OccurrenceTasks_concat_first(dt, hours) ==
    << [type |-> "concat", date |-> dt] >>
        \o DownloadTasks(dt, build_urls_for_date(dt, hours))

\* the tasks one occurrence appends: its downloads, then its concat
OccurrenceTasks(dt, hours) ==
    DownloadTasks(dt, build_urls_for_date(dt, hours))
        \o << [type |-> "concat", date |-> dt] >>

RECURSIVE FlatTasks(_)
FlatTasks(show_dates) ==
    IF show_dates = <<>> THEN <<>>
    ELSE OccurrenceTasks(Head(show_dates)[1], Head(show_dates)[2])
            \o FlatTasks(Tail(show_dates))

\* "Build flat task list"
BuildTasks ==
    /\ pc = "build"
    /\ tasks' = FlatTasks(gen_show_dates(start_date))
    /\ ti' = 1
    /\ pc' = "loop"
    /\ UNCHANGED <<session, tmpdirs, tmpfiles, outfiles, net, ffmpeg, done>>
    /\ UNCHANGED cfgvars
    /\ UNCHANGED fnvars

\* a loop that a failed task ends
NextTask_stop_on_failure(i, failed) ==
    IF failed THEN Len(tasks) + 1 ELSE i + 1

\* "except Exception ... finally: pbar.update(1)": the loop goes on with
\* the next task, whether the task failed or not
NextTask(i, failed) == i + 1

\* a loop without the try: the exception of a task leaves main()
AfterTask_propagate(failed) == IF failed THEN "exit1" ELSE "loop"

\* where main() stands after a task: in the loop, the exception caught
AfterTask(failed) == "loop"

\* an acceptance test that forgets the content type
Accepted_any_type(resp) == resp.status = 200

\* "if r.status_code == 200 and ct.startswith("audio")"
Accepted(resp) ==
    /\ resp.status = 200
    /\ startswith(resp.ct, <<"a", "u", "d", "i", "o">>)

\* the responses the priming request is drawn from (timeout=30)
PrimeResponses ==
    {TransportFailure, Response(200, text_html), Response(500, text_html)}

\* the responses the segment request is drawn from (timeout=60)
SegmentResponses ==
    {TransportFailure, Response(200, audio_mpeg), Response(200, text_html),
     Response(404, audio_mpeg)}

\* a download that primes the listing page after the fetch
DownloadRequests_fetch_first(prime, fetch) == <<fetch, prime>>

\* the requests of a download whose priming succeeded, in the order sent:
\* session.get(prime_url), then session.get(url, headers=hdr)
DownloadRequests(prime, fetch) == <<prime, fetch>>

\* what running ffmpeg on the saved file can do: exit with 0, exit with an
\* error code, or fail to run
VerifyRuns ==
    {[raised |-> FALSE, returncode |-> 0],
     [raised |-> FALSE, returncode |-> 1],
     [raised |-> TRUE, returncode |-> 0]}

\* verify_mpeg: True if ffmpeg decodes the file, False on an error code or
\* an exception
verify_mpeg(run) == ~run.raised /\ run.returncode = 0

\* a download that deletes a file that does not verify
KeptAfterVerify_only_verified(verified) == verified

\* "if not verify_mpeg(dest): tqdm.write(Warning ... keeping it)": the
\* file stays whatever the verdict
KeptAfterVerify(verified) == TRUE

\* the priming URL: the query parameters of the listing page
prime_url(prime_date) ==
    LET t == ord2ymd(prime_date)
    IN  [c |-> <<"0">>, d |-> Fmt02(t.day), m |-> Fmt02(t.month),
         y |-> Dec(t.year)]

\* the download branch of the loop body, with its except and finally
DownloadTask ==
    /\ pc = "loop"
    /\ ti <= Len(tasks)
    /\ tasks[ti].type = "download"
    /\ LET task   == tasks[ti]
           dt     == task.date
           fn     == task.filename
           pieces == split(fn)
           tmp    == isoformat(dt)
       IN  IF Len(pieces) < 5 \/ ~IsInt(pieces[5])
           THEN \* int(fn.split('-')[4]) raises
                /\ done' = Append(done, [task |-> ti, outcome |-> "Failed",
                                         resp |-> TransportFailure])
                /\ ti' = NextTask(ti, TRUE)
                /\ pc' = AfterTask(TRUE)
                /\ UNCHANGED <<tmpdirs, tmpfiles, net>>
           ELSE
             LET hour       == int(pieces[5])
                 prime_date == IF hour # 0 THEN dt ELSE dt + 1
                 primed(r)  == [req |-> "GET prime", task |-> ti,
                                url |-> prime_url(prime_date), resp |-> r]
                 fetch      == [req |-> "GET segment", task |-> ti,
                                url |-> task.url, headers |-> task.headers]
             IN  \E presp \in PrimeResponses :
                 IF Raises(presp)
                 THEN /\ net' = Append(net, primed(presp))
                      /\ done' = Append(done,
                            [task |-> ti, outcome |-> "Failed",
                             resp |-> TransportFailure])
                      /\ ti' = NextTask(ti, TRUE)
                      /\ pc' = AfterTask(TRUE)
                      /\ UNCHANGED <<tmpdirs, tmpfiles>>
                 ELSE \E r \in SegmentResponses :
                      /\ net' = net \o DownloadRequests(primed(presp), fetch)
                      /\ tmpdirs' = tmpdirs \cup {tmp}
                      /\ IF r.error
                         THEN /\ done' = Append(done,
                                    [task |-> ti, outcome |-> "Failed",
                                     resp |-> r])
                              /\ ti' = NextTask(ti, TRUE)
                              /\ pc' = AfterTask(TRUE)
                              /\ UNCHANGED tmpfiles
                         ELSE IF Accepted(r)
                         THEN \E run \in VerifyRuns :
                              /\ tmpfiles' =
                                    IF KeptAfterVerify(verify_mpeg(run))
                                    THEN tmpfiles \cup {<<tmp, fn>>}
                                    ELSE tmpfiles
                              /\ done' = Append(done,
                                    [task |-> ti,
                                     outcome |-> IF verify_mpeg(run)
                                                 THEN "Saved"
                                                 ELSE "SavedWithWarning",
                                     resp |-> r])
                              /\ ti' = NextTask(ti, FALSE)
                              /\ pc' = AfterTask(FALSE)
                         ELSE /\ done' = Append(done,
                                    [task |-> ti, outcome |-> "Skipped",
                                     resp |-> r])
                              /\ ti' = NextTask(ti, FALSE)
                              /\ pc' = AfterTask(FALSE)
                              /\ UNCHANGED tmpfiles
    /\ UNCHANGED <<session, tasks, outfiles, ffmpeg>>
    /\ UNCHANGED cfgvars
    /\ UNCHANGED fnvars

file_list_txt == <<"f", "i", "l", "e", "_", "l", "i", "s", "t", ".", "t", "x", "t">>

\* the names in directory tmp, none when it does not exist
listdir(tmp) == {f[2] : f \in {g \in tmpfiles : g[1] = tmp}}

\* an assembler that runs ffmpeg on an empty list
ShouldConcat_always(ps) == TRUE

\* "if parts:"
ShouldConcat(ps) == ps # <<>>

\* the concat branch of the loop body, with its except and finally
ConcatTask ==
    /\ pc = "loop"
    /\ ti <= Len(tasks)
    /\ tasks[ti].type = "concat"
    /\ LET dt  == tasks[ti].date
           tmp == isoformat(dt)
           ps  == sorted(glob_mp3(listdir(tmp)))
           finish(outcome, failed) ==
               /\ done' = Append(done, [task |-> ti, outcome |-> outcome,
                                        resp |-> TransportFailure])
               /\ ti' = NextTask(ti, failed)
               /\ pc' = AfterTask(failed)
       IN  IF ShouldConcat(ps)
           THEN \E ok \in BOOLEAN :
                /\ ffmpeg' = Append(ffmpeg,
                        [out |-> tmp, inputs |-> ps, ok |-> ok])
                /\ IF ok
                   THEN \* out written, listf.unlink(), then the cleanup
                        /\ outfiles' = outfiles \cup {tmp}
                        /\ IF tmp \in tmpdirs
                           THEN /\ tmpfiles' = {g \in tmpfiles : g[1] # tmp}
                                /\ tmpdirs' = tmpdirs \ {tmp}
                                /\ finish("Produced", FALSE)
                           ELSE /\ UNCHANGED <<tmpfiles, tmpdirs>>
                                /\ finish("Failed", TRUE)
                   ELSE \* check=True raises: file_list.txt and the
                        \* segments stay, the cleanup is not reached
                        /\ tmpfiles' = tmpfiles \cup {<<tmp, file_list_txt>>}
                        /\ UNCHANGED <<outfiles, tmpdirs>>
                        /\ finish("Failed", TRUE)
           ELSE /\ UNCHANGED <<ffmpeg, outfiles>>
                /\ IF tmp \in tmpdirs
                   THEN /\ tmpfiles' = {g \in tmpfiles : g[1] # tmp}
                        /\ tmpdirs' = tmpdirs \ {tmp}
                        /\ finish("NoSegments", FALSE)
                   ELSE \* tmp.iterdir() raises FileNotFoundError
                        /\ UNCHANGED <<tmpfiles, tmpdirs>>
                        /\ finish("Failed", TRUE)
    /\ UNCHANGED <<session, tasks, net>>
    /\ UNCHANGED cfgvars
    /\ UNCHANGED fnvars

\* the loop is over: "All done!", pbar.close(), main() returns
Finish ==
    /\ pc = "loop"
    /\ ti > Len(tasks)
    /\ pc' = "done"
    /\ UNCHANGED <<session, tasks, ti, tmpdirs, tmpfiles, outfiles, net,
                   ffmpeg, done>>
    /\ UNCHANGED cfgvars
    /\ UNCHANGED fnvars

Next ==
    \/ CheckConfig
    \/ LoginGetForm
    \/ LoginPostCredentials
    \/ LoginGetLanding
    \/ ResolveStation
    \/ BuildTasks
    \/ DownloadTask
    \/ ConcatTask
    \/ Finish

Spec == Init /\ [][Next]_vars

(***************************************************************************)
(* Properties of the functions (checked under SpecFn).                     *)
(***************************************************************************)
\* the effective date of the segment of hour h of the occurrence of date dt
EffectiveDate(dt, h) == IF h = 0 THEN dt + 1 ELSE dt

\* (date, hour) a before (date, hour) b
Earlier(a, b) == a[1] < b[1] \/ (a[1] = b[1] /\ a[2] < b[2])

\* the dates around the windows of the rules
NearbyDates ==
    LET firsts == {strptime(SCHEDULES[k][1]) : k \in 1..Len(SCHEDULES)}
        lasts  == {strptime(SCHEDULES[k][2]) : k \in 1..Len(SCHEDULES)}
        lo == CHOOSE x \in firsts : \A y \in firsts : x <= y
        hi == CHOOSE x \in lasts : \A y \in lasts : y <= x
    IN  (lo - 8)..(hi + 8)

\* rule k covers date d: d is in its window, ends included, on its weekday
Covers(k, d) ==
    /\ strptime(SCHEDULES[k][1]) <= d
    /\ d <= strptime(SCHEDULES[k][2])
    /\ weekday(d) = SCHEDULES[k][3]

\* C8: the sorted list of the saved segment files of an occurrence is in
\* chronological order of the segments, by (effective date, hour).
C8_SortedIsChronological ==
    fn_pc = "parts" =>
        \A a \in 1..Len(parts) : \A b \in 1..Len(parts) :
            a < b =>
                \A i \in 1..Len(entries) : \A j \in 1..Len(entries) :
                    (entries[i][1] = parts[a] /\ entries[j][1] = parts[b]) =>
                        Earlier(<<EffectiveDate(occ[1], occ[2][i]), occ[2][i]>>,
                                <<EffectiveDate(occ[1], occ[2][j]), occ[2][j]>>)

\* the last five pieces of a segment filename split at its dashes:
\* year, month, day, hour and "00.mp3"
NameFields(fn) ==
    LET p == split(fn)
    IN  SubSeq(p, Len(p) - 4, Len(p))

\* C9: for every hour h of the hours list, in list order, the date in the
\* filename and in the Referer is the occurrence date plus one day when
\* h = 0 and the occurrence date otherwise.
C9_EffectiveDateEncoded ==
    fn_pc \in {"urls", "parts"} =>
        /\ Len(entries) = Len(occ[2])
        /\ \A i \in 1..Len(entries) :
            LET h   == occ[2][i]
                t   == ord2ymd(IF h = 0 THEN occ[1] + 1 ELSE occ[1])
                f   == NameFields(entries[i][1])
                ref == entries[i][3].Referer
            IN  /\ startswith(entries[i][1], STATION_CODE \o <<"-">>)
                /\ int(f[1]) = t.year % 100
                /\ int(f[2]) = t.month
                /\ int(f[3]) = t.day
                /\ int(f[4]) = h
                /\ int(ref.y) = t.year
                /\ int(ref.m) = t.month
                /\ int(ref.d) = t.day
                /\ int(ref.p) = h
                /\ entries[i][2].f = entries[i][1]

\* an occurrence on the last day of a month with a midnight hour and
\* another hour has had its entries built
C9_Witness ==
    /\ fn_pc = "urls"
    /\ ord2ymd(occ[1]).day = 31
    /\ ord2ymd(occ[1]).month = 12
    /\ \E i \in 1..Len(occ[2]) : occ[2][i] = 0
    /\ \E i \in 1..Len(occ[2]) : occ[2][i] # 0

\* C10: without a start date, a date is emitted if and only if some rule
\* has start <= date <= end and the date's weekday is the rule's weekday.
C10_EmitsExactlyCovered ==
    (fn_pc = "dates" /\ start_date = None) =>
        \A d \in NearbyDates \cup {occs[k][1] : k \in 1..Len(occs)} :
            (\E k \in 1..Len(occs) : occs[k][1] = d)
                <=> (\E k \in 1..Len(SCHEDULES) : Covers(k, d))

\* a rule whose first and last day are both on its weekday was expanded, and
\* both days were emitted
C10_Witness ==
    /\ fn_pc = "dates"
    /\ start_date = None
    /\ Len(SCHEDULES) = 1
    /\ Len(occs) = 2
    /\ occs[1][1] = strptime(SCHEDULES[1][1])
    /\ occs[2][1] = strptime(SCHEDULES[1][2])

(***************************************************************************)
(* Properties of a run of main() (checked under Spec and FairSpec).        *)
(***************************************************************************)
\* the task processed k-th
DoneTask(k) == tasks[done[k].task]

\* the requests of the login handshake
LoginRequests == {"GET ?pp=1", "POST pp=1", "GET ?pc=3"}

\* the k-th request sent was a handshake step and failed: no response, or
\* an error status
LoginStepFailed(k) ==
    /\ net[k].req \in LoginRequests
    /\ (net[k].resp.error
            \/ (400 <= net[k].resp.status /\ net[k].resp.status < 600))

\* some segment file is present in the temporary namespace of date dt
SegmentPresent(dt) ==
    \E g \in tmpfiles : g[1] = isoformat(dt) /\ g[2] # file_list_txt

\* C1: once the Concat task of an occurrence has been processed, its
\* temporary namespace and every file in it are gone, whether the
\* concatenation succeeded or failed.
C1_TmpRemovedAfterConcat ==
    \A k \in 1..Len(done) :
        DoneTask(k).type = "concat" =>
            /\ isoformat(DoneTask(k).date) \notin tmpdirs
            /\ \A g \in tmpfiles : g[1] # isoformat(DoneTask(k).date)

\* C2: the tasks are processed exactly once each, in list order, whatever
\* fails: the k-th task processed is task k, a task that is left can be
\* processed, and the run ends only when the last task has been processed.
C2_EveryTaskOnceInOrder ==
    /\ \A k \in 1..Len(done) : done[k].task = k
    /\ Len(done) <= Len(tasks)
    /\ pc = "loop" => ti = Len(done) + 1
    /\ (pc = "loop" /\ Len(done) < Len(tasks)) =>
            (ti <= Len(tasks) /\ tasks[ti].type \in {"download", "concat"})
    /\ pc = "done" => Len(done) = Len(tasks)

\* a run is over in which a download failed at priming, one was rejected,
\* one was saved and the concatenation failed
C2_Witness ==
    /\ pc = "done"
    /\ Len(done) = 4
    /\ done[1].outcome = "Failed"
    /\ done[2].outcome = "Skipped"
    /\ done[3].outcome = "Saved"
    /\ done[4].outcome = "Failed"
    /\ Len(ffmpeg) = 1

\* the index of the Concat task of the j-th occurrence of the list os
RECURSIVE ConcatIndex(_, _)
ConcatIndex(os, j) ==
    IF j = 0 THEN 0 ELSE ConcatIndex(os, j - 1) + Len(os[j][2]) + 1

\* C3: the task list holds, for each occurrence in turn, one Download task
\* per hour (segment 1..total) and then its one Concat task, and a Concat
\* task is processed only after all Download tasks of its occurrence.
C3_DownloadsThenConcat ==
    pc \in {"loop", "done"} =>
        LET os == gen_show_dates(start_date)
        IN  /\ Len(tasks) = ConcatIndex(os, Len(os))
            /\ \A j \in 1..Len(os) :
                LET c == ConcatIndex(os, j)
                    n == Len(os[j][2])
                IN  /\ tasks[c] = [type |-> "concat", date |-> os[j][1]]
                    /\ \A i \in 1..n :
                        /\ tasks[c - n - 1 + i].type = "download"
                        /\ tasks[c - n - 1 + i].date = os[j][1]
                        /\ tasks[c - n - 1 + i].segment = i
                        /\ tasks[c - n - 1 + i].total = n
                    /\ \A k \in 1..Len(done) :
                        done[k].task = c =>
                            \A i \in 1..n :
                                \E k2 \in 1..(k - 1) :
                                    done[k2].task = c - n - 1 + i

\* the run of a schedule of two occurrences is over
C3_Witness ==
    /\ pc = "done"
    /\ Len(gen_show_dates(start_date)) = 2
    /\ Len(done) = 4
    /\ DoneTask(2).type = "concat"
    /\ DoneTask(3).type = "download"

\* C4: a Concat task that finds no segment file in the temporary namespace
\* of its occurrence does not invoke ffmpeg and creates no output file.
C4_NoSegmentsNoOutput ==
    [][(/\ pc = "loop"
        /\ ti <= Len(tasks)
        /\ tasks[ti].type = "concat"
        /\ ~SegmentPresent(tasks[ti].date))
            => (ffmpeg' = ffmpeg /\ outfiles' = outfiles)]_vars

\* a Concat task found a temporary namespace without segment files, and
\* another one found no temporary namespace
C4_Witness ==
    /\ pc = "done"
    /\ Len(done) = 4
    /\ done[1].outcome = "Skipped"
    /\ done[2].outcome = "NoSegments"
    /\ done[3].outcome = "Failed"
    /\ done[4].outcome = "Failed"
    /\ ffmpeg = <<>>
    /\ outfiles = {}

\* C5: when a step of the login handshake fails, the run ends with status
\* 1 at that step: no task list, no task, no later request, no file.
C5_LoginFailureEndsRun ==
    \A k \in 1..Len(net) :
        LoginStepFailed(k) =>
            /\ pc = "exit1"
            /\ Len(net) = k
            /\ session = FALSE
            /\ tasks = <<>>
            /\ done = <<>>
            /\ tmpdirs = {}
            /\ tmpfiles = {}
            /\ outfiles = {}
            /\ ffmpeg = <<>>

\* the credential POST was answered with 403
C5_Witness ==
    /\ Len(net) = 2
    /\ net[2].req = "POST pp=1"
    /\ net[2].resp.status = 403
    /\ pc = "exit1"

\* C6 as stated: once login_session has returned, nothing aborts the run,
\* and the run ends with all tasks processed.
C6_NothingAbortsAfterLogin ==
    session = TRUE =>
        /\ pc # "exit1"
        /\ pc = "done" => Len(done) = Len(tasks)

\* C6 as amended: once the station code is resolved, nothing aborts the run:
\* main() stays in the task loop, where a step is always possible and every
\* step processes one more task, until all tasks are processed and the
\* completion marker is reached; a failure of the station code resolution
\* ends the run with status 1 before any task.
C6_NothingAbortsOnceResolved ==
    /\ [][(pc \in {"build", "loop", "done"})
            => (pc' \in {"build", "loop", "done"})]_vars
    /\ [](pc = "loop" =>
            \/ ti = Len(tasks) + 1
            \/ (ti <= Len(tasks) /\ tasks[ti].type \in {"download", "concat"}))
    /\ [][(pc = "loop" /\ pc' = "loop") => Len(done') = Len(done) + 1]_vars
    /\ [](pc = "done" => Len(done) = Len(tasks))
    /\ []((pc = "exit1" /\ session = TRUE) =>
            (tasks = <<>> /\ done = <<>> /\ tmpdirs = {} /\ outfiles = {}))

\* after a login and a resolution from the listing page, a run with failed
\* downloads and a failed concatenation is over
C6_Witness ==
    /\ pc = "done"
    /\ session = TRUE
    /\ Len(net) >= 4
    /\ net[4].req = "GET index"
    /\ Len(done) = 4
    /\ done[1].outcome = "Failed"
    /\ done[2].outcome = "Failed"
    /\ done[2].resp.error
    /\ done[3].outcome = "Saved"
    /\ done[4].outcome = "Failed"

\* the Concat task of the occurrence of date dt has been processed
ConcatProcessed(dt) ==
    \E k \in 1..Len(done) :
        DoneTask(k).type = "concat" /\ DoneTask(k).date = dt

\* C7: a segment response is accepted, its bytes written to the temporary
\* namespace, if and only if its status is 200 and its content type begins
\* with "audio"; any other response is skipped, writes no file, and the
\* segment is not among the inputs of the concatenation of its occurrence.
C7_AcceptedIffAudio200 ==
    \A k \in 1..Len(done) :
        (DoneTask(k).type = "download" /\ ~done[k].resp.error) =>
            LET r    == done[k].resp
                file == <<isoformat(DoneTask(k).date), DoneTask(k).filename>>
                good == /\ r.status = 200
                        /\ Len(r.ct) >= 5
                        /\ SubSeq(r.ct, 1, 5) = <<"a", "u", "d", "i", "o">>
            IN  /\ good <=> done[k].outcome \in {"Saved", "SavedWithWarning"}
                /\ good => (file \in tmpfiles
                                \/ ConcatProcessed(DoneTask(k).date))
                /\ ~good =>
                    /\ done[k].outcome = "Skipped"
                    /\ file \notin tmpfiles
                    /\ \A j \in 1..Len(ffmpeg) :
                        ffmpeg[j].out = file[1] =>
                            \A i \in 1..Len(ffmpeg[j].inputs) :
                                ffmpeg[j].inputs[i] # file[2]

\* a 200 text/html response was skipped, and the concatenation of its
\* occurrence ran on the other segments
C7_Witness ==
    /\ pc = "done"
    /\ Len(done) = 4
    /\ done[1].resp = Response(200, text_html)
    /\ done[1].outcome = "Skipped"
    /\ done[2].outcome = "Saved"
    /\ done[3].resp = Response(404, audio_mpeg)
    /\ Len(ffmpeg) = 1
    /\ Len(ffmpeg[1].inputs) = 1

\* the occurrences of the configuration without a lower bound
Unbounded == gen_show_dates(None)

\* the occurrences of a list that are on or after day d, in the list's order
OnOrAfter(os, d) == SelectSeq(os, LAMBDA o : o[1] >= d)

\* C11: with a lower bound D, gen_show_dates emits no occurrence before D
\* and every occurrence of the unbounded run on or after D, D itself
\* included, in the order of the unbounded run.
C11_BoundIsInclusive ==
    (fn_pc = "dates" /\ start_date # None) =>
        LET all == Unbounded
        IN  /\ \A k \in 1..Len(occs) : occs[k][1] >= start_date
            /\ \A k \in 1..Len(all) :
                all[k][1] >= start_date =>
                    \E j \in 1..Len(occs) : occs[j] = all[k]
            /\ occs = OnOrAfter(all, start_date)

\* the bound is itself the day of an occurrence, which is emitted, and an
\* earlier occurrence of the unbounded run was left out
C11_Witness ==
    /\ fn_pc = "dates"
    /\ start_date # None
    /\ Len(occs) >= 2
    /\ occs[1][1] = start_date
    /\ Unbounded[1][1] < start_date

\* the handshake of login_session, in the order of the code
LoginOrder == <<"GET ?pp=1", "POST pp=1", "GET ?pc=3">>

\* C12: login sends GET ?pp=1, then the credential POST, then GET ?pc=3, in
\* that order and nothing in between; once a step has failed no later
\* request is sent and no session is returned; a session is returned only
\* after all three steps succeeded.
C12_LoginStepsInOrder ==
    /\ \A k \in 1..Len(net) :
        IF k <= 3 THEN net[k].req = LoginOrder[k]
                  ELSE net[k].req \notin LoginRequests
    /\ \A k \in 1..Len(net) :
        LoginStepFailed(k) => (Len(net) = k /\ ~session)
    /\ session =>
        /\ Len(net) >= 3
        /\ \A k \in 1..3 : ~LoginStepFailed(k)

\* the first two steps succeeded and the third got no response: it is the
\* last request of the run and there is no session
C12_Witness ==
    /\ Len(net) = 3
    /\ ~net[1].resp.error
    /\ ~net[2].resp.error
    /\ net[3].req = "GET ?pc=3"
    /\ net[3].resp.error
    /\ ~session
    /\ pc = "exit1"

\* the k-th request sent was a handshake step whose final response was not
\* a 2xx response: no response at all, or any other status
LoginStepNot2xx(k) ==
    /\ net[k].req \in LoginRequests
    /\ (net[k].resp.error
            \/ ~(200 <= net[k].resp.status /\ net[k].resp.status < 300))

\* C13: login fails whenever the final response of a step has a status
\* outside 2xx, 1xx and 3xx included, or the transport fails.
C13_FailsOnNon2xx ==
    \A k \in 1..Len(net) : LoginStepNot2xx(k) => ~session

\* the priming request got no response (timeout) or an error status
PrimeFailed(r) == r.error \/ (400 <= r.status /\ r.status < 600)

\* the file a download task writes its segment to
TaskFile(t) == <<isoformat(tasks[t].date), tasks[t].filename>>

\* C14: in every Download task the priming request is sent before the
\* segment request; when the priming request fails, by an error status or a
\* timeout, the segment request of that task is never sent and the task
\* writes no file and no directory.
C14_PrimeBeforeSegment ==
    /\ [](\A p \in 1..Len(net) :
            net[p].req = "GET segment" =>
                /\ p > 1
                /\ net[p - 1].req = "GET prime"
                /\ net[p - 1].task = net[p].task
                /\ ~PrimeFailed(net[p - 1].resp))
    /\ [](\A p \in 1..Len(net) :
            (net[p].req = "GET prime" /\ PrimeFailed(net[p].resp)) =>
                /\ \A q \in 1..Len(net) :
                    net[q].req = "GET segment" => net[q].task # net[p].task
                /\ TaskFile(net[p].task) \notin tmpfiles)
    /\ [][(/\ Len(net') > Len(net)
           /\ net'[Len(net')].req = "GET prime"
           /\ PrimeFailed(net'[Len(net')].resp))
            => (/\ tmpdirs' = tmpdirs
                /\ tmpfiles' = tmpfiles
                /\ outfiles' = outfiles)]_vars

\* the run saw a priming request that timed out and one that got an error
\* status, each the last request of its task, after a task whose priming
\* succeeded and whose segment was requested
C14_Witness ==
    /\ pc = "done"
    /\ \E p \in 2..Len(net) :
        /\ net[p - 1].req = "GET prime" /\ ~PrimeFailed(net[p - 1].resp)
        /\ net[p].req = "GET segment"
        /\ p + 2 <= Len(net)
        /\ net[p + 1].req = "GET prime" /\ net[p + 1].resp.error
        /\ net[p + 2].req = "GET prime"
        /\ net[p + 2].resp = Response(500, text_html)
    /\ tmpdirs = {}

\* C15: for every Download task and every station code, codes with '-' and
\* the empty code included, the date of the priming request is the effective
\* date that build_urls_for_date put into the Referer of the segment.
C15_PrimeDateIsEffectiveDate ==
    \A p \in 1..Len(net) :
        net[p].req = "GET prime" =>
            LET ref == tasks[net[p].task].headers.Referer
            IN  /\ net[p].url.d = ref.d
                /\ net[p].url.m = ref.m
                /\ net[p].url.y = ref.y

\* C16: temporary segment files exist for at most one occurrence, the one
\* whose tasks are being processed: while a task is processed, every segment
\* file present belongs to the occurrence of that task, so that no file of an
\* earlier occurrence exists when the first Download of an occurrence starts.
C16_TmpFilesOfOneOccurrence ==
    (pc = "loop" /\ ti <= Len(tasks)) =>
        \A g \in tmpfiles :
            g[2] # file_list_txt => g[1] = isoformat(tasks[ti].date)

\* the collaborator failed while assembling the occurrence of day dt
CollaboratorFailed(dt) ==
    \E j \in 1..Len(ffmpeg) : ffmpeg[j].out = isoformat(dt) /\ ~ffmpeg[j].ok

\* C17: the Concat task of an occurrence ends as Produced or NoSegments
\* whenever the collaborator does not fail, the occurrence without any
\* persisted segment included, whether its downloads were skipped or all
\* failed at priming.
C17_ConcatProducedOrNoSegments ==
    \A k \in 1..Len(done) :
        (DoneTask(k).type = "concat" /\ ~CollaboratorFailed(DoneTask(k).date))
            => done[k].outcome \in {"Produced", "NoSegments"}

\* the number of segment requests sent for task t
SegmentRequests(t) ==
    Cardinality({p \in 1..Len(net) :
                    net[p].req = "GET segment" /\ net[p].task = t})

\* C18: a segment whose decode verdict is negative is neither deleted nor
\* fetched again: its Download task does not fail, its file stays in the
\* temporary namespace until the Concat task of its occurrence, and it is in
\* the input list of that concatenation like a verified segment.
C18_UnverifiedSegmentKept ==
    \A k \in 1..Len(done) :
        done[k].outcome = "SavedWithWarning" =>
            LET t == done[k].task
            IN  /\ tasks[t].type = "download"
                /\ Accepted(done[k].resp)
                /\ SegmentRequests(t) = 1
                /\ ~ConcatProcessed(tasks[t].date) => TaskFile(t) \in tmpfiles
                /\ ConcatProcessed(tasks[t].date) =>
                    \E j \in 1..Len(ffmpeg) :
                        /\ ffmpeg[j].out = TaskFile(t)[1]
                        /\ \E i \in 1..Len(ffmpeg[j].inputs) :
                            ffmpeg[j].inputs[i] = TaskFile(t)[2]

\* a segment that did not verify and a verified one were assembled together
\* into the output of their occurrence
C18_Witness ==
    /\ pc = "done"
    /\ Len(done) = 3
    /\ done[1].outcome = "SavedWithWarning"
    /\ done[2].outcome = "Saved"
    /\ done[3].outcome = "Produced"
    /\ Len(ffmpeg) = 1
    /\ Len(ffmpeg[1].inputs) = 2

\* C19: for the configured SCHEDULES and any start-date bound no two
\* occurrences have the same date, so the temporary namespaces tmp/<date>
\* and the outputs <date>.mp3 of different occurrences are different.
C19_ConfiguredDatesDistinct ==
    (fn_pc = "dates" /\ SCHEDULES = ConfiguredSCHEDULES) =>
        \A i \in 1..Len(occs) : \A j \in 1..Len(occs) :
            i # j =>
                /\ occs[i][1] # occs[j][1]
                /\ isoformat(occs[i][1]) # isoformat(occs[j][1])

\* the configured SCHEDULES were expanded without a bound, into occurrences
\* of all three rules
C19_Witness ==
    /\ fn_pc = "dates"
    /\ SCHEDULES = ConfiguredSCHEDULES
    /\ start_date = None
    /\ Len(occs) > 50
    /\ \A w \in {0, 1, 2} : \E k \in 1..Len(occs) : weekday(occs[k][1]) = w

\* C20: for every occurrence of the configured SCHEDULES, hours 22, 23, 0,
\* and every subset of saved segments, the sorted file list of the
\* concatenation is in the order of the Download tasks: 22, 23, 0.
C20_ConfiguredSortedInTaskOrder ==
    (fn_pc = "parts" /\ SCHEDULES = ConfiguredSCHEDULES) =>
        /\ occ[2] = <<22, 23, 0>>
        /\ \A a \in 1..Len(parts) : \A b \in 1..Len(parts) :
            a < b =>
                \A i \in 1..Len(entries) : \A j \in 1..Len(entries) :
                    (entries[i][1] = parts[a] /\ entries[j][1] = parts[b])
                        => i < j

\* all three segments of the configured occurrence on the last day of a
\* month were saved and sorted
C20_Witness ==
    /\ fn_pc = "parts"
    /\ SCHEDULES = ConfiguredSCHEDULES
    /\ Len(parts) = 3
    /\ ord2ymd(occ[1]).month # ord2ymd(occ[1] + 1).month

=============================================================================
